---- MODULE Spec2Model ----
(***************************************************************************)
(* Kitties runtime module: the lesson-5 version (linked-list ownership     *)
(* index, prices, buy_kitty) and the lesson-4 version (swap-with-last      *)
(* ownership array).  Storage maps are partial functions: a key is in the  *)
(* DOMAIN exactly when the storage holds an entry for it.                  *)
(***************************************************************************)
EXTENDS Integers, Sequences, FiniteSets, TLC

(* ------------------------------ bounds --------------------------------- *)

\* T::KittyIndex::max_value() of the modelled index type
MaxKittyIndex == 3
\* accounts are 1..NumAccounts
NumAccounts == 2
\* prices and max_price arguments range over 0..MaxPrice
MaxPrice == 1
\* free balance of every account at genesis
InitBalance == 1
\* number of distinct outputs of the randomness source
NumSeeds == 1
\* number of distinct outputs of the randomness source where genomes are compared
NumGeneSeeds == 3
\* number of distinct outputs of the randomness source where genomes are followed
\* through every call of lesson 5
NumLifeSeeds == 2
\* number of sample bytes the dna operands of combine_dna are drawn from
NumByteSamples == 16

(* ----------------------------- constants ------------------------------- *)

\* dna: [u8; 16]
DnaLen == 16

\* Option::None of an Option<T::KittyIndex>; Some(x) is x
None == -1

AccountId == 1..NumAccounts
\* whom a kitty can be transferred to: the accounts and one that never signs a call
Recipients == 1..(NumAccounts + 1)
KittyIndex == 0..MaxKittyIndex
Balance == 0..MaxPrice

\* a + b on the index type: past max_value() a build without overflow checks wraps
\* (wraps = TRUE) and a build with them panics with "attempt to add with overflow"
KittyIndexAdd(a, b, wraps) ==
    IF a + b > MaxKittyIndex /\ ~wraps
    THEN [res |-> "panic", val |-> None]
    ELSE [res |-> "Ok", val |-> (a + b) % (MaxKittyIndex + 1)]

(* ------------------------- storage primitives -------------------------- *)

StorageInsert(m, k, v) == [x \in (DOMAIN m) \cup {k} |-> IF x = k THEN v ELSE m[x]]

StorageRemove(m, k) == [x \in (DOMAIN m) \ {k} |-> m[x]]

StorageExists(m, k) == k \in DOMAIN m

EmptyMap == [x \in {} |-> 0]

(* --------------------------- randomness -------------------------------- *)

SeedTable == <<240, 204, 170, 15>>

\* the 16-byte outputs the randomness source can produce
RandomValues == { [i \in 1..DnaLen |-> (SeedTable[k] * (2 * i - 1)) % 256] : k \in 1..NumSeeds }

\* the outputs it can produce where genomes are compared
GeneValues == { [i \in 1..DnaLen |-> (SeedTable[k] * (2 * i - 1)) % 256] : k \in 1..NumGeneSeeds }

\* the outputs it can produce where genomes are followed through every call
LifeValues == { [i \in 1..DnaLen |-> (SeedTable[k] * (2 * i - 1)) % 256] : k \in 1..NumLifeSeeds }

(* ----------------------------- combine_dna ----------------------------- *)

RECURSIVE BitAnd(_, _, _)
BitAnd(a, b, n) ==
    IF n = 0 THEN 0
    ELSE (a % 2) * (b % 2) + 2 * BitAnd(a \div 2, b \div 2, n - 1)

RECURSIVE BitOr(_, _, _)
BitOr(a, b, n) ==
    IF n = 0 THEN 0
    ELSE (IF (a % 2) + (b % 2) > 0 THEN 1 ELSE 0) + 2 * BitOr(a \div 2, b \div 2, n - 1)

\* !x on a u8
BitNot8(a) == 255 - a

\* mutant: the selector is applied the other way round
combine_dna_swapped(dna1, dna2, selector) ==
    BitOr(BitAnd(BitNot8(selector), dna1, 8), BitAnd(selector, dna2, 8), 8)

combine_dna(dna1, dna2, selector) ==
    BitOr(BitAnd(selector, dna1, 8), BitAnd(BitNot8(selector), dna2, 8), 8)

(* ====================== lesson 5: state ================================ *)

VARIABLES
    Kitties,        \* map KittyIndex => Option<Kitty>, Kitty = [dna, price]
    KittyOwner,     \* map KittyIndex => Option<AccountId>
    KittiesCount,   \* KittyIndex
    OwnedKitties,   \* map (AccountId, Option<KittyIndex>) => Option<KittyLinkedItem>
    FreeBalance,    \* balances module: free balance of every account
    issued,         \* history: the ids issued by successful create/breed calls, in order
    last,           \* the last dispatched call and its result
    L4_Kitties,             \* lesson 4: map KittyIndex => Option<Kitty>
    L4_KittiesCount,        \* lesson 4: KittyIndex
    L4_OwnedKitties,        \* lesson 4: map (AccountId, KittyIndex) => KittyIndex
    L4_OwnedKittiesCount,   \* lesson 4: map AccountId => KittyIndex
    L4_KittyOwner,          \* lesson 4: map KittyIndex => Option<AccountId>
    L4_OwnedKittiesIndex,   \* lesson 4: map KittyIndex => KittyIndex
    version,        \* which version of the module the runtime was built with: 4 or 5
    overflow_checks, \* whether the build panics on integer overflow (else it wraps)
    mux,            \* operands of a combine_dna call and what each version returned
    listed          \* history: per account the ids appended to its list and not removed
                    \* since, in the order of the append calls made on the list directly

store ==
    [Kitties |-> Kitties, KittyOwner |-> KittyOwner, KittiesCount |-> KittiesCount,
     OwnedKitties |-> OwnedKitties, FreeBalance |-> FreeBalance]

NoCall == [op |-> "none", res |-> "Ok"]

\* no direct call made on any account's list
NoneListed == [a \in AccountId |-> <<>>]

\* no combine_dna call under examination
NoMux == [dna1 |-> None, dna2 |-> None, selector |-> None, out5 |-> None, out4 |-> None]

Call(op, res) == [op |-> op, res |-> res]

(* ------------------ lesson 5: OwnedKitties linked list ----------------- *)

DefaultItem == [prev |-> None, next |-> None]

OwnedKitties_read(ok, account, key) ==
    IF StorageExists(ok, <<account, key>>) THEN ok[<<account, key>>] ELSE DefaultItem

OwnedKitties_write(ok, account, key, item) == StorageInsert(ok, <<account, key>>, item)

OwnedKitties_read_head(ok, account) == OwnedKitties_read(ok, account, None)

OwnedKitties_write_head(ok, account, item) == OwnedKitties_write(ok, account, None, item)

\* mutant: the previous tail (or the sentinel of an empty list) is not pointed at the
\* new node
OwnedKitties_append_unlinked_tail(ok, account, kitty_id) ==
    LET head == OwnedKitties_read_head(ok, account)
        new_head == [prev |-> kitty_id, next |-> head.next]
        ok1 == OwnedKitties_write_head(ok, account, new_head)
        item == [prev |-> head.prev, next |-> None]
    IN  OwnedKitties_write(ok1, account, kitty_id, item)

OwnedKitties_append(ok, account, kitty_id) ==
    LET head == OwnedKitties_read_head(ok, account)
        new_head == [prev |-> kitty_id, next |-> head.next]
        ok1 == OwnedKitties_write_head(ok, account, new_head)
        prev == OwnedKitties_read(ok1, account, head.prev)
        new_prev == [prev |-> prev.prev, next |-> kitty_id]
        ok2 == OwnedKitties_write(ok1, account, head.prev, new_prev)
        item == [prev |-> head.prev, next |-> None]
    IN  OwnedKitties_write(ok2, account, kitty_id, item)

\* mutant: the node is deleted and its predecessor relinked, its successor is not
OwnedKitties_remove_half_splice(ok, account, kitty_id) ==
    IF StorageExists(ok, <<account, kitty_id>>)
    THEN LET item == ok[<<account, kitty_id>>]
             ok0 == StorageRemove(ok, <<account, kitty_id>>)
             prev == OwnedKitties_read(ok0, account, item.prev)
             new_prev == [prev |-> prev.prev, next |-> item.next]
         IN  OwnedKitties_write(ok0, account, item.prev, new_prev)
    ELSE ok

\* mutant: the node is read with get, not take: its entry stays in storage
OwnedKitties_remove_keep_node(ok, account, kitty_id) ==
    IF StorageExists(ok, <<account, kitty_id>>)
    THEN LET item == ok[<<account, kitty_id>>]
             prev == OwnedKitties_read(ok, account, item.prev)
             new_prev == [prev |-> prev.prev, next |-> item.next]
             ok1 == OwnedKitties_write(ok, account, item.prev, new_prev)
             next == OwnedKitties_read(ok1, account, item.next)
             new_next == [prev |-> item.prev, next |-> next.next]
         IN  OwnedKitties_write(ok1, account, item.next, new_next)
    ELSE ok

\* mutant: the successor is read before the predecessor is written back
OwnedKitties_remove_stale_next(ok, account, kitty_id) ==
    IF StorageExists(ok, <<account, kitty_id>>)
    THEN LET item == ok[<<account, kitty_id>>]
             ok0 == StorageRemove(ok, <<account, kitty_id>>)
             prev == OwnedKitties_read(ok0, account, item.prev)
             next == OwnedKitties_read(ok0, account, item.next)
             new_prev == [prev |-> prev.prev, next |-> item.next]
             ok1 == OwnedKitties_write(ok0, account, item.prev, new_prev)
             new_next == [prev |-> item.prev, next |-> next.next]
         IN  OwnedKitties_write(ok1, account, item.next, new_next)
    ELSE ok

\* mutant: a missing node is read as the default item and spliced out all the same
OwnedKitties_remove_unguarded(ok, account, kitty_id) ==
    LET item == OwnedKitties_read(ok, account, kitty_id)
        ok0 == StorageRemove(ok, <<account, kitty_id>>)
        prev == OwnedKitties_read(ok0, account, item.prev)
        new_prev == [prev |-> prev.prev, next |-> item.next]
        ok1 == OwnedKitties_write(ok0, account, item.prev, new_prev)
        next == OwnedKitties_read(ok1, account, item.next)
        new_next == [prev |-> item.prev, next |-> next.next]
    IN  OwnedKitties_write(ok1, account, item.next, new_next)

OwnedKitties_remove(ok, account, kitty_id) ==
    IF StorageExists(ok, <<account, kitty_id>>)
    THEN LET item == ok[<<account, kitty_id>>]
             ok0 == StorageRemove(ok, <<account, kitty_id>>)
             prev == OwnedKitties_read(ok0, account, item.prev)
             new_prev == [prev |-> prev.prev, next |-> item.next]
             ok1 == OwnedKitties_write(ok0, account, item.prev, new_prev)
             next == OwnedKitties_read(ok1, account, item.next)
             new_next == [prev |-> item.prev, next |-> next.next]
         IN  OwnedKitties_write(ok1, account, item.next, new_next)
    ELSE ok

(* ------------------ balances: Currency::transfer ----------------------- *)

\* The balances module is an external collaborator: the transfer moves exactly `value`
\* or fails and leaves both balances untouched.

Currency_transfer(st, from, to, value) ==
    IF st.FreeBalance[from] < value
    THEN [res |-> "balance too low to send value", st |-> st]
    ELSE [res |-> "Ok",
          st |-> [st EXCEPT !.FreeBalance =
                     [a \in AccountId |->
                        IF a = from /\ a = to THEN st.FreeBalance[a]
                        ELSE IF a = from THEN st.FreeBalance[a] - value
                        ELSE IF a = to THEN st.FreeBalance[a] + value
                        ELSE st.FreeBalance[a]]]]

(* ------------------ lesson 5: module functions ------------------------- *)

\* mutant: the counter is handed out without the max_value() check
next_kitty_id_unchecked(st) == [res |-> "Ok", id |-> st.KittiesCount]

next_kitty_id(st) ==
    LET kitty_id == st.KittiesCount
    IN  IF kitty_id = MaxKittyIndex
        THEN [res |-> "Kitties count overflow", id |-> None]
        ELSE [res |-> "Ok", id |-> kitty_id]

insert_owned_kitty(st, owner, kitty_id) ==
    IF ~StorageExists(st.Kitties, kitty_id)
    THEN [res |-> "This cat does not exist", st |-> st]
    ELSE [res |-> "Ok",
          st |-> [st EXCEPT !.KittyOwner = StorageInsert(st.KittyOwner, kitty_id, owner),
                            !.OwnedKitties = OwnedKitties_append(st.OwnedKitties, owner, kitty_id)]]

\* mutant: the counter is stored as it was, not advanced
insert_kitty_no_bump(st, owner, kitty_id, kitty, wraps) ==
    LET st1 == [st EXCEPT !.Kitties = StorageInsert(st.Kitties, kitty_id, kitty),
                          !.KittiesCount = kitty_id]
    IN  insert_owned_kitty(st1, owner, kitty_id)

\* a panic leaves in the store what was written before it
insert_kitty(st, owner, kitty_id, kitty, wraps) ==
    LET st0 == [st EXCEPT !.Kitties = StorageInsert(st.Kitties, kitty_id, kitty)]
        count == KittyIndexAdd(kitty_id, 1, wraps)
    IN  IF count.res # "Ok" THEN [res |-> "panic", st |-> st0]
        ELSE insert_owned_kitty([st0 EXCEPT !.KittiesCount = count.val], owner, kitty_id)

\* mutant: the child is given the genome of its first parent
do_breed_clone(st, sender, kitty_id_1, kitty_id_2, selector, wraps) ==
    IF ~StorageExists(st.Kitties, kitty_id_1) THEN [res |-> "Invalid kitty_id_1", st |-> st]
    ELSE IF ~StorageExists(st.Kitties, kitty_id_2) THEN [res |-> "Invalid kitty_id_2", st |-> st]
    ELSE IF kitty_id_1 = kitty_id_2 THEN [res |-> "Needs different parent", st |-> st]
    ELSE LET nid == next_kitty_id(st)
         IN  IF nid.res # "Ok" THEN [res |-> nid.res, st |-> st]
             ELSE insert_kitty(st, sender, nid.id,
                               [dna |-> st.Kitties[kitty_id_1].dna, price |-> 0], wraps)

do_breed(st, sender, kitty_id_1, kitty_id_2, selector, wraps) ==
    IF ~StorageExists(st.Kitties, kitty_id_1) THEN [res |-> "Invalid kitty_id_1", st |-> st]
    ELSE IF ~StorageExists(st.Kitties, kitty_id_2) THEN [res |-> "Invalid kitty_id_2", st |-> st]
    ELSE IF kitty_id_1 = kitty_id_2 THEN [res |-> "Needs different parent", st |-> st]
    ELSE LET nid == next_kitty_id(st)
         IN  IF nid.res # "Ok" THEN [res |-> nid.res, st |-> st]
             ELSE LET kitty1_dna == st.Kitties[kitty_id_1].dna
                      kitty2_dna == st.Kitties[kitty_id_2].dna
                      new_dna == [i \in 1..DnaLen |->
                                    combine_dna(kitty1_dna[i], kitty2_dna[i], selector[i])]
                  IN  insert_kitty(st, sender, nid.id, [dna |-> new_dna, price |-> 0], wraps)

\* mutant: the ownership check is missing
do_transfer_no_owner_check(st, sender, to, kitty_id) ==
    IF ~StorageExists(st.KittyOwner, kitty_id)
    THEN [res |-> "No owner for this kitty", st |-> st]
    ELSE LET ok1 == OwnedKitties_remove(st.OwnedKitties, sender, kitty_id)
         IN  [res |-> "Ok",
              st |-> [st EXCEPT !.KittyOwner = StorageInsert(st.KittyOwner, kitty_id, to),
                                !.OwnedKitties = OwnedKitties_append(ok1, to, kitty_id)]]

\* mutant: the id is appended to the recipient's chain but left in the sender's
do_transfer_no_remove(st, sender, to, kitty_id) ==
    IF ~StorageExists(st.KittyOwner, kitty_id)
    THEN [res |-> "No owner for this kitty", st |-> st]
    ELSE IF st.KittyOwner[kitty_id] # sender
    THEN [res |-> "Sender does not own this kitty", st |-> st]
    ELSE [res |-> "Ok",
          st |-> [st EXCEPT !.KittyOwner = StorageInsert(st.KittyOwner, kitty_id, to),
                            !.OwnedKitties =
                                OwnedKitties_append(st.OwnedKitties, to, kitty_id)]]

\* mutant: a transferred kitty is taken off sale
do_transfer_delists(st, sender, to, kitty_id) ==
    IF ~StorageExists(st.KittyOwner, kitty_id)
    THEN [res |-> "No owner for this kitty", st |-> st]
    ELSE IF st.KittyOwner[kitty_id] # sender
    THEN [res |-> "Sender does not own this kitty", st |-> st]
    ELSE LET ok1 == OwnedKitties_remove(st.OwnedKitties, sender, kitty_id)
         IN  [res |-> "Ok",
              st |-> [st EXCEPT !.KittyOwner = StorageInsert(st.KittyOwner, kitty_id, to),
                                !.OwnedKitties = OwnedKitties_append(ok1, to, kitty_id),
                                !.Kitties = StorageInsert(st.Kitties, kitty_id,
                                              [st.Kitties[kitty_id] EXCEPT !.price = 0])]]

\* mutant: a transfer to oneself returns Ok without touching the list
do_transfer_skip_self(st, sender, to, kitty_id) ==
    IF ~StorageExists(st.KittyOwner, kitty_id)
    THEN [res |-> "No owner for this kitty", st |-> st]
    ELSE IF st.KittyOwner[kitty_id] # sender
    THEN [res |-> "Sender does not own this kitty", st |-> st]
    ELSE IF sender = to THEN [res |-> "Ok", st |-> st]
    ELSE LET ok1 == OwnedKitties_remove(st.OwnedKitties, sender, kitty_id)
         IN  [res |-> "Ok",
              st |-> [st EXCEPT !.KittyOwner = StorageInsert(st.KittyOwner, kitty_id, to),
                                !.OwnedKitties = OwnedKitties_append(ok1, to, kitty_id)]]

do_transfer(st, sender, to, kitty_id) ==
    IF ~StorageExists(st.KittyOwner, kitty_id)
    THEN [res |-> "No owner for this kitty", st |-> st]
    ELSE IF st.KittyOwner[kitty_id] # sender
    THEN [res |-> "Sender does not own this kitty", st |-> st]
    ELSE LET ok1 == OwnedKitties_remove(st.OwnedKitties, sender, kitty_id)
         IN  [res |-> "Ok",
              st |-> [st EXCEPT !.KittyOwner = StorageInsert(st.KittyOwner, kitty_id, to),
                                !.OwnedKitties = OwnedKitties_append(ok1, to, kitty_id)]]

\* mutant: ownership is re-parented before the payment is attempted
do_buy_kitty_reparent_first(st, sender, kitty_id, max_price) ==
    IF ~StorageExists(st.Kitties, kitty_id) THEN [res |-> "This cat does not exist", st |-> st]
    ELSE IF ~StorageExists(st.KittyOwner, kitty_id)
    THEN [res |-> "No owner for this kitty", st |-> st]
    ELSE LET owner == st.KittyOwner[kitty_id]
             kitty == st.Kitties[kitty_id]
             kitty_price == kitty.price
         IN  IF owner = sender THEN [res |-> "You can't buy your own cat", st |-> st]
             ELSE IF kitty_price = 0
             THEN [res |-> "The cat you want to buy is not for sale", st |-> st]
             ELSE IF ~(kitty_price <= max_price)
             THEN [res |-> "The cat you want to buy costs more than your max price", st |-> st]
             ELSE LET early == do_transfer(st, owner, sender, kitty_id)
                      paid == Currency_transfer(early.st, sender, owner, kitty_price)
                  IN  IF paid.res # "Ok" THEN [res |-> paid.res, st |-> early.st]
                      ELSE LET moved == paid
                           IN  IF moved.res # "Ok" THEN [res |-> "panic", st |-> moved.st]
                               ELSE [res |-> "Ok",
                                     st |-> [moved.st EXCEPT !.Kitties =
                                               StorageInsert(moved.st.Kitties, kitty_id,
                                                             [kitty EXCEPT !.price = 0])]]

\* mutant: the max_price check is missing
do_buy_kitty_no_max_check(st, sender, kitty_id, max_price) ==
    IF ~StorageExists(st.Kitties, kitty_id) THEN [res |-> "This cat does not exist", st |-> st]
    ELSE IF ~StorageExists(st.KittyOwner, kitty_id)
    THEN [res |-> "No owner for this kitty", st |-> st]
    ELSE LET owner == st.KittyOwner[kitty_id]
             kitty == st.Kitties[kitty_id]
             kitty_price == kitty.price
         IN  IF owner = sender THEN [res |-> "You can't buy your own cat", st |-> st]
             ELSE IF kitty_price = 0
             THEN [res |-> "The cat you want to buy is not for sale", st |-> st]
             ELSE LET paid == Currency_transfer(st, sender, owner, kitty_price)
                  IN  IF paid.res # "Ok" THEN [res |-> paid.res, st |-> st]
                      ELSE LET moved == do_transfer(paid.st, owner, sender, kitty_id)
                           IN  \* .expect(..) on the result of do_transfer: a panic leaves
                               \* in the store what was written before it
                               IF moved.res # "Ok" THEN [res |-> "panic", st |-> moved.st]
                               ELSE [res |-> "Ok",
                                     st |-> [moved.st EXCEPT !.Kitties =
                                               StorageInsert(moved.st.Kitties, kitty_id,
                                                             [kitty EXCEPT !.price = 0])]]

\* mutant: the inner transfer is asked to move the kitty from the buyer to the owner
do_buy_kitty_transfer_from_buyer(st, sender, kitty_id, max_price) ==
    IF ~StorageExists(st.Kitties, kitty_id) THEN [res |-> "This cat does not exist", st |-> st]
    ELSE IF ~StorageExists(st.KittyOwner, kitty_id)
    THEN [res |-> "No owner for this kitty", st |-> st]
    ELSE LET owner == st.KittyOwner[kitty_id]
             kitty == st.Kitties[kitty_id]
             kitty_price == kitty.price
         IN  IF owner = sender THEN [res |-> "You can't buy your own cat", st |-> st]
             ELSE IF kitty_price = 0
             THEN [res |-> "The cat you want to buy is not for sale", st |-> st]
             ELSE IF ~(kitty_price <= max_price)
             THEN [res |-> "The cat you want to buy costs more than your max price", st |-> st]
             ELSE LET paid == Currency_transfer(st, sender, owner, kitty_price)
                  IN  IF paid.res # "Ok" THEN [res |-> paid.res, st |-> st]
                      ELSE LET moved == do_transfer(paid.st, sender, owner, kitty_id)
                           IN  \* .expect(..) on the result of do_transfer: a panic leaves
                               \* in the store what was written before it
                               IF moved.res # "Ok" THEN [res |-> "panic", st |-> moved.st]
                               ELSE [res |-> "Ok",
                                     st |-> [moved.st EXCEPT !.Kitties =
                                               StorageInsert(moved.st.Kitties, kitty_id,
                                                             [kitty EXCEPT !.price = 0])]]

do_buy_kitty(st, sender, kitty_id, max_price) ==
    IF ~StorageExists(st.Kitties, kitty_id) THEN [res |-> "This cat does not exist", st |-> st]
    ELSE IF ~StorageExists(st.KittyOwner, kitty_id)
    THEN [res |-> "No owner for this kitty", st |-> st]
    ELSE LET owner == st.KittyOwner[kitty_id]
             kitty == st.Kitties[kitty_id]
             kitty_price == kitty.price
         IN  IF owner = sender THEN [res |-> "You can't buy your own cat", st |-> st]
             ELSE IF kitty_price = 0
             THEN [res |-> "The cat you want to buy is not for sale", st |-> st]
             ELSE IF ~(kitty_price <= max_price)
             THEN [res |-> "The cat you want to buy costs more than your max price", st |-> st]
             ELSE LET paid == Currency_transfer(st, sender, owner, kitty_price)
                  IN  IF paid.res # "Ok" THEN [res |-> paid.res, st |-> st]
                      ELSE LET moved == do_transfer(paid.st, owner, sender, kitty_id)
                           IN  \* .expect(..) on the result of do_transfer: a panic leaves
                               \* in the store what was written before it
                               IF moved.res # "Ok" THEN [res |-> "panic", st |-> moved.st]
                               ELSE [res |-> "Ok",
                                     st |-> [moved.st EXCEPT !.Kitties =
                                               StorageInsert(moved.st.Kitties, kitty_id,
                                                             [kitty EXCEPT !.price = 0])]]

\* mutant: the ownership check is missing
do_set_price_no_owner_check(st, sender, kitty_id, new_price) ==
    IF ~StorageExists(st.Kitties, kitty_id) THEN [res |-> "This cat does not exist", st |-> st]
    ELSE LET kitty == st.Kitties[kitty_id]
         IN  [res |-> "Ok",
              st |-> [st EXCEPT !.Kitties =
                        StorageInsert(st.Kitties, kitty_id, [kitty EXCEPT !.price = new_price])]]

\* mutant: the record that is repriced and stored is read from id 0
do_set_price_wrong_record(st, sender, kitty_id, new_price) ==
    IF ~StorageExists(st.Kitties, kitty_id) THEN [res |-> "This cat does not exist", st |-> st]
    ELSE IF ~StorageExists(st.KittyOwner, kitty_id)
    THEN [res |-> "No owner for this kitty", st |-> st]
    ELSE IF st.KittyOwner[kitty_id] # sender THEN [res |-> "You do not own this cat", st |-> st]
    ELSE LET kitty == st.Kitties[0]
         IN  [res |-> "Ok",
              st |-> [st EXCEPT !.Kitties =
                        StorageInsert(st.Kitties, kitty_id, [kitty EXCEPT !.price = new_price])]]

do_set_price(st, sender, kitty_id, new_price) ==
    IF ~StorageExists(st.Kitties, kitty_id) THEN [res |-> "This cat does not exist", st |-> st]
    ELSE IF ~StorageExists(st.KittyOwner, kitty_id)
    THEN [res |-> "No owner for this kitty", st |-> st]
    ELSE IF st.KittyOwner[kitty_id] # sender THEN [res |-> "You do not own this cat", st |-> st]
    ELSE LET kitty == st.Kitties[kitty_id]
         IN  [res |-> "Ok",
              st |-> [st EXCEPT !.Kitties =
                        StorageInsert(st.Kitties, kitty_id, [kitty EXCEPT !.price = new_price])]]

(* ------------------ lesson 5: dispatchable calls ----------------------- *)

\* dna is the value random_value(&sender) returns
create(st, sender, dna, wraps) ==
    LET nid == next_kitty_id(st)
    IN  IF nid.res # "Ok" THEN [res |-> nid.res, st |-> st]
        ELSE insert_kitty(st, sender, nid.id, [dna |-> dna, price |-> 0], wraps)

\* the id a call of create or breed draws from the counter (None when it issues none)
IssuedId(count_before, r) == IF r.res = "Ok" THEN count_before ELSE None

breed(st, sender, kitty_id_1, kitty_id_2, selector, wraps) ==
    do_breed(st, sender, kitty_id_1, kitty_id_2, selector, wraps)

transfer(st, sender, to, kitty_id) == do_transfer(st, sender, to, kitty_id)

buy_kitty(st, sender, kitty_id, max_price) == do_buy_kitty(st, sender, kitty_id, max_price)

set_price(st, sender, kitty_id, price) == do_set_price(st, sender, kitty_id, price)

(* ====================== lesson 4 ======================================= *)

store4 ==
    [Kitties |-> L4_Kitties, KittiesCount |-> L4_KittiesCount,
     OwnedKitties |-> L4_OwnedKitties, OwnedKittiesCount |-> L4_OwnedKittiesCount,
     KittyOwner |-> L4_KittyOwner, OwnedKittiesIndex |-> L4_OwnedKittiesIndex]

\* get of a map whose value type is not an Option: the default (0) when absent
StorageGetOrDefault(m, k) == IF StorageExists(m, k) THEN m[k] ELSE 0

L4_combine_dna(dna1, dna2, selector) ==
    BitOr(BitAnd(dna1, selector, 8), BitAnd(dna2, BitNot8(selector), 8), 8)

L4_next_kitty_id(st) ==
    LET kitty_id == st.KittiesCount
    IN  IF kitty_id = MaxKittyIndex
        THEN [res |-> "Kitties count overflow", id |-> None]
        ELSE [res |-> "Ok", id |-> kitty_id]

\* kitty_id + 1 and user_kitties_id + 1 overflow at max_value(): a build with overflow
\* checks panics there, one without wraps (wraps tells which build runs).  A panic
\* leaves in the store what was written before it.
L4_insert_kitty(st, owner, kitty_id, kitty, wraps) ==
    LET st0 == [st EXCEPT !.Kitties = StorageInsert(st.Kitties, kitty_id, kitty)]
        count == KittyIndexAdd(kitty_id, 1, wraps)
    IN  IF count.res # "Ok" THEN [res |-> "panic", st |-> st0]
        ELSE
        LET user_kitties_id == StorageGetOrDefault(st.OwnedKittiesCount, owner)
            st1 == [st0 EXCEPT !.KittiesCount = count.val,
                               !.OwnedKitties =
                                   StorageInsert(st.OwnedKitties, <<owner, user_kitties_id>>,
                                                 kitty_id)]
            user_count == KittyIndexAdd(user_kitties_id, 1, wraps)
        IN  IF user_count.res # "Ok" THEN [res |-> "panic", st |-> st1]
            ELSE [res |-> "Ok",
                  st |-> [st1 EXCEPT
                            !.OwnedKittiesCount =
                                StorageInsert(st.OwnedKittiesCount, owner, user_count.val),
                            !.OwnedKittiesIndex =
                                StorageInsert(st.OwnedKittiesIndex, kitty_id, user_kitties_id),
                            !.KittyOwner = StorageInsert(st.KittyOwner, kitty_id, owner)]]

L4_do_breed(st, sender, kitty_id_1, kitty_id_2, selector, wraps) ==
    IF ~StorageExists(st.Kitties, kitty_id_1) THEN [res |-> "Invalid kitty_id_1", st |-> st]
    ELSE IF ~StorageExists(st.Kitties, kitty_id_2) THEN [res |-> "Invalid kitty_id_2", st |-> st]
    ELSE IF kitty_id_1 = kitty_id_2 THEN [res |-> "Needs different parent", st |-> st]
    ELSE LET nid == L4_next_kitty_id(st)
         IN  IF nid.res # "Ok" THEN [res |-> nid.res, st |-> st]
             ELSE LET kitty1_dna == st.Kitties[kitty_id_1]
                      kitty2_dna == st.Kitties[kitty_id_2]
                      new_dna == [i \in 1..DnaLen |->
                                    L4_combine_dna(kitty1_dna[i], kitty2_dna[i], selector[i])]
                  IN  L4_insert_kitty(st, sender, nid.id, new_dna, wraps)

L4_do_transfer(st, from, to, kitty_id) ==
    LET owned_kitty_count_from == StorageGetOrDefault(st.OwnedKittiesCount, from)
        owned_kitty_count_to == StorageGetOrDefault(st.OwnedKittiesCount, to)
    IN  IF owned_kitty_count_from = 0
        THEN [res |-> "Transfer causes underflow of 'from' kitty", st |-> st]
        ELSE IF owned_kitty_count_to = MaxKittyIndex
        THEN [res |-> "Transfer causes overflow of 'to' kitty", st |-> st]
        ELSE
        LET new_owned_kitty_count_from == owned_kitty_count_from - 1
            new_owned_kitty_count_to == owned_kitty_count_to + 1
            kitty_index == StorageGetOrDefault(st.OwnedKittiesIndex, kitty_id)
            swap == kitty_index # new_owned_kitty_count_from
            last_kitty_id ==
                StorageGetOrDefault(st.OwnedKitties, <<from, new_owned_kitty_count_from>>)
            owned1 == IF swap
                      THEN StorageInsert(st.OwnedKitties, <<from, kitty_index>>, last_kitty_id)
                      ELSE st.OwnedKitties
            index1 == IF swap
                      THEN StorageInsert(st.OwnedKittiesIndex, last_kitty_id, kitty_index)
                      ELSE st.OwnedKittiesIndex
            owner2 == StorageInsert(st.KittyOwner, kitty_id, to)
            index2 == StorageInsert(index1, kitty_id, owned_kitty_count_to)
            owned2 == StorageRemove(owned1, <<from, new_owned_kitty_count_from>>)
            owned3 == StorageInsert(owned2, <<to, owned_kitty_count_to>>, kitty_id)
            count1 == StorageInsert(st.OwnedKittiesCount, from, new_owned_kitty_count_from)
            count2 == StorageInsert(count1, to, new_owned_kitty_count_to)
        IN  [res |-> "Ok",
             st |-> [st EXCEPT !.OwnedKitties = owned3, !.OwnedKittiesIndex = index2,
                               !.KittyOwner = owner2, !.OwnedKittiesCount = count2]]

L4_create(st, sender, dna, wraps) ==
    LET nid == L4_next_kitty_id(st)
    IN  IF nid.res # "Ok" THEN [res |-> nid.res, st |-> st]
        ELSE L4_insert_kitty(st, sender, nid.id, dna, wraps)

L4_breed(st, sender, kitty_id_1, kitty_id_2, selector, wraps) ==
    L4_do_breed(st, sender, kitty_id_1, kitty_id_2, selector, wraps)

\* the result of do_transfer is dropped: the call answers Ok(()) whatever it was
L4_transfer(st, sender, to, kitty_id) ==
    IF ~StorageExists(st.KittyOwner, kitty_id)
    THEN [res |-> "No owner for this kitty", st |-> st]
    ELSE IF st.KittyOwner[kitty_id] # sender
    THEN [res |-> "You do not own this kitty", st |-> st]
    ELSE [res |-> "Ok", st |-> L4_do_transfer(st, sender, to, kitty_id).st]

(* ====================== state machines ================================= *)

vars5 == <<Kitties, KittyOwner, KittiesCount, OwnedKitties, FreeBalance>>

vars4 == <<L4_Kitties, L4_KittiesCount, L4_OwnedKitties, L4_OwnedKittiesCount,
           L4_KittyOwner, L4_OwnedKittiesIndex>>

build == <<version, overflow_checks>>

vars == <<vars5, vars4, issued, last, build, mux, listed>>

Genesis ==
    /\ Kitties = EmptyMap
    /\ KittyOwner = EmptyMap
    /\ KittiesCount = 0
    /\ OwnedKitties = EmptyMap
    /\ FreeBalance = [a \in AccountId |-> InitBalance]
    /\ L4_Kitties = EmptyMap
    /\ L4_KittiesCount = 0
    /\ L4_OwnedKitties = EmptyMap
    /\ L4_OwnedKittiesCount = EmptyMap
    /\ L4_KittyOwner = EmptyMap
    /\ L4_OwnedKittiesIndex = EmptyMap
    /\ issued = <<>>
    /\ last = NoCall

\* a runtime built with the lesson-5 module
Init == Genesis /\ version = 5 /\ overflow_checks \in BOOLEAN /\ mux = NoMux
        /\ listed = NoneListed

\* a runtime built with the lesson-4 module
Init4 == Genesis /\ version = 4 /\ overflow_checks \in BOOLEAN /\ mux = NoMux
         /\ listed = NoneListed

\* a runtime built with either
InitAny == Init \/ Init4

\* the store after a dispatched call: the call's writes, or the store as it was
\* before the call when the call panicked (the host runs each extrinsic on an overlay
\* of the storage and discards the overlay of one that traps)
Committed(before, r) == IF r.res = "panic" THEN before ELSE r.st

\* one dispatched lesson-5 call: its writes, the id it issued, its result
Dispatch(op, r) ==
    /\ Kitties' = Committed(store, r).Kitties
    /\ KittyOwner' = Committed(store, r).KittyOwner
    /\ KittiesCount' = Committed(store, r).KittiesCount
    /\ OwnedKitties' = Committed(store, r).OwnedKitties
    /\ FreeBalance' = Committed(store, r).FreeBalance
    /\ issued' = IF op \in {"create", "breed"} /\ r.res = "Ok"
                 THEN Append(issued, IssuedId(KittiesCount, r)) ELSE issued
    /\ last' = Call(op, r.res)
    /\ UNCHANGED <<vars4, build, mux, listed>>

Create ==
    \E sender \in AccountId, dna \in RandomValues :
        Dispatch("create", create(store, sender, dna, ~overflow_checks))

Breed ==
    \E sender \in AccountId, kitty_id_1 \in KittyIndex, kitty_id_2 \in KittyIndex,
       selector \in RandomValues :
        Dispatch("breed", breed(store, sender, kitty_id_1, kitty_id_2, selector, ~overflow_checks))

Transfer ==
    \E sender \in AccountId, to \in AccountId, kitty_id \in KittyIndex :
        Dispatch("transfer", transfer(store, sender, to, kitty_id))

BuyKitty ==
    \E sender \in AccountId, kitty_id \in KittyIndex, max_price \in Balance :
        Dispatch("buy_kitty", buy_kitty(store, sender, kitty_id, max_price))

SetPrice ==
    \E sender \in AccountId, kitty_id \in KittyIndex, price \in Balance :
        Dispatch("set_price", set_price(store, sender, kitty_id, price))

Next == Create \/ Breed \/ Transfer \/ BuyKitty \/ SetPrice

Spec == Init /\ [][Next]_vars

\* one dispatched lesson-4 call
Dispatch4(op, r) ==
    /\ L4_Kitties' = Committed(store4, r).Kitties
    /\ L4_KittiesCount' = Committed(store4, r).KittiesCount
    /\ L4_OwnedKitties' = Committed(store4, r).OwnedKitties
    /\ L4_OwnedKittiesCount' = Committed(store4, r).OwnedKittiesCount
    /\ L4_KittyOwner' = Committed(store4, r).KittyOwner
    /\ L4_OwnedKittiesIndex' = Committed(store4, r).OwnedKittiesIndex
    /\ issued' = IF op \in {"create", "breed"} /\ r.res = "Ok"
                 THEN Append(issued, IssuedId(L4_KittiesCount, r)) ELSE issued
    /\ last' = Call(op, r.res)
    /\ UNCHANGED <<vars5, build, mux, listed>>

Create4 ==
    \E sender \in AccountId, dna \in RandomValues :
        Dispatch4("create", L4_create(store4, sender, dna, ~overflow_checks))

Breed4 ==
    \E sender \in AccountId, kitty_id_1 \in KittyIndex, kitty_id_2 \in KittyIndex,
       selector \in RandomValues :
        Dispatch4("breed",
                  L4_breed(store4, sender, kitty_id_1, kitty_id_2, selector, ~overflow_checks))

Transfer4 ==
    \E sender \in AccountId, to \in AccountId, kitty_id \in KittyIndex :
        Dispatch4("transfer", L4_transfer(store4, sender, to, kitty_id))

Next4 == Create4 \/ Breed4 \/ Transfer4

Spec4 == Init4 /\ [][Next4]_vars

NextAny == (version = 5 /\ Next) \/ (version = 4 /\ Next4)

SpecAny == InitAny /\ [][NextAny]_vars

(* ------------------ genomes: create and breed with a richer source ----- *)

GenesCreate ==
    \E sender \in AccountId, dna \in GeneValues :
        Dispatch("create", create(store, sender, dna, ~overflow_checks))

GenesBreed ==
    \E sender \in AccountId, kitty_id_1 \in KittyIndex, kitty_id_2 \in KittyIndex,
       selector \in GeneValues :
        Dispatch("breed", breed(store, sender, kitty_id_1, kitty_id_2, selector, ~overflow_checks))

GenesCreate4 ==
    \E sender \in AccountId, dna \in GeneValues :
        Dispatch4("create", L4_create(store4, sender, dna, ~overflow_checks))

GenesBreed4 ==
    \E sender \in AccountId, kitty_id_1 \in KittyIndex, kitty_id_2 \in KittyIndex,
       selector \in GeneValues :
        Dispatch4("breed",
                  L4_breed(store4, sender, kitty_id_1, kitty_id_2, selector, ~overflow_checks))

\* the calls that write a genome
NextGenes ==
    \/ version = 5 /\ (GenesCreate \/ GenesBreed)
    \/ version = 4 /\ (GenesCreate4 \/ GenesBreed4)

SpecGenes == InitAny /\ [][NextGenes]_vars

(* ------------------ lesson 5 with differing genomes -------------------- *)

LifeCreate ==
    \E sender \in AccountId, dna \in LifeValues :
        Dispatch("create", create(store, sender, dna, ~overflow_checks))

\* the ids a kitty can have: next_kitty_id never issues max_value()
IssuableIds == 0..(MaxKittyIndex - 1)

\* the calls below name ids of IssuableIds only (an id that has no kitty yet is among
\* them until the counter is saturated), and breed draws its selector from RandomValues
LifeBreed ==
    \E sender \in AccountId, kitty_id_1 \in IssuableIds, kitty_id_2 \in IssuableIds,
       selector \in RandomValues :
        Dispatch("breed", breed(store, sender, kitty_id_1, kitty_id_2, selector, ~overflow_checks))

LifeTransfer ==
    \E sender \in AccountId, to \in AccountId, kitty_id \in IssuableIds :
        Dispatch("transfer", transfer(store, sender, to, kitty_id))

LifeBuyKitty ==
    \E sender \in AccountId, kitty_id \in IssuableIds, max_price \in Balance :
        Dispatch("buy_kitty", buy_kitty(store, sender, kitty_id, max_price))

LifeSetPrice ==
    \E sender \in AccountId, kitty_id \in IssuableIds, price \in Balance :
        Dispatch("set_price", set_price(store, sender, kitty_id, price))

NextLife == LifeCreate \/ LifeBreed \/ LifeTransfer \/ LifeBuyKitty \/ LifeSetPrice

SpecLife == Init /\ [][NextLife]_vars

(* ------------------ combine_dna on its own ----------------------------- *)

Byte == 0..255

ByteSampleTable ==
    <<240, 204, 170, 0, 255, 15, 51, 85, 1, 2, 4, 8, 16, 32, 64, 128, 254, 127, 195, 60>>

\* the bytes the two dna operands are drawn from; the selector is any byte
ByteSamples == {ByteSampleTable[k] : k \in 1..NumByteSamples}

\* the operands of one call are drawn, nothing has been computed yet
InitCombine ==
    /\ Genesis /\ version = 5 /\ overflow_checks \in BOOLEAN /\ listed = NoneListed
    /\ \E dna1 \in ByteSamples, dna2 \in ByteSamples, selector \in Byte :
          mux = [dna1 |-> dna1, dna2 |-> dna2, selector |-> selector,
                 out5 |-> None, out4 |-> None]

\* the lesson-5 function is applied to the operands
CombineDna ==
    /\ mux.out5 = None
    /\ mux' = [mux EXCEPT !.out5 = combine_dna(mux.dna1, mux.dna2, mux.selector)]
    /\ UNCHANGED <<vars5, vars4, issued, last, build, listed>>

\* the lesson-4 function is applied to the operands
L4_CombineDna ==
    /\ mux.out4 = None
    /\ mux' = [mux EXCEPT !.out4 = L4_combine_dna(mux.dna1, mux.dna2, mux.selector)]
    /\ UNCHANGED <<vars5, vars4, issued, last, build, listed>>

NextCombine == CombineDna \/ L4_CombineDna

SpecCombine == InitCombine /\ [][NextCombine]_vars

(* ------------------ the OwnedKitties list on its own -------------------- *)

\* seq without its occurrences of x, the rest in order
Without(seq, x) == SelectSeq(seq, LAMBDA y : y # x)

InitList == Init

\* OwnedKitties::append(account, kitty_id) called directly with an id the list does
\* not hold
ListAppend ==
    \E account \in AccountId, kitty_id \in KittyIndex :
        /\ \A i \in 1..Len(listed[account]) : listed[account][i] # kitty_id
        /\ OwnedKitties' = OwnedKitties_append(OwnedKitties, account, kitty_id)
        /\ listed' = [listed EXCEPT ![account] = Append(@, kitty_id)]
        /\ last' = Call("append", "Ok")
        /\ UNCHANGED <<Kitties, KittyOwner, KittiesCount, FreeBalance, vars4, issued,
                       build, mux>>

\* OwnedKitties::remove(account, kitty_id) called directly with any id
ListRemove ==
    \E account \in AccountId, kitty_id \in KittyIndex :
        /\ OwnedKitties' = OwnedKitties_remove(OwnedKitties, account, kitty_id)
        /\ listed' = [listed EXCEPT ![account] = Without(@, kitty_id)]
        /\ last' = Call("remove", "Ok")
        /\ UNCHANGED <<Kitties, KittyOwner, KittiesCount, FreeBalance, vars4, issued,
                       build, mux>>

NextList == ListAppend \/ ListRemove

SpecList == InitList /\ [][NextList]_vars

(* ====================== observing the ownership chains ================= *)

Range(seq) == {seq[i] : i \in 1..Len(seq)}

Reverse(seq) == [i \in 1..Len(seq) |-> seq[Len(seq) + 1 - i]]

Occurrences(seq, x) == Cardinality({i \in 1..Len(seq) : seq[i] = x})

\* marks a walk cut off because it did not reach None
Stuck == None - 1

WalkFuel == MaxKittyIndex + 2

RECURSIVE WalkNext(_, _, _, _)
WalkNext(ok, account, cur, fuel) ==
    IF cur = None THEN <<>>
    ELSE IF fuel = 0 THEN <<Stuck>>
    ELSE <<cur>> \o WalkNext(ok, account, OwnedKitties_read(ok, account, cur).next, fuel - 1)

RECURSIVE WalkPrev(_, _, _, _)
WalkPrev(ok, account, cur, fuel) ==
    IF cur = None THEN <<>>
    ELSE IF fuel = 0 THEN <<Stuck>>
    ELSE <<cur>> \o WalkPrev(ok, account, OwnedKitties_read(ok, account, cur).prev, fuel - 1)

\* the ids met walking forward from the sentinel's next
ChainFwd(ok, account) ==
    WalkNext(ok, account, OwnedKitties_read_head(ok, account).next, WalkFuel)

\* the ids met walking backward from the sentinel's prev
ChainBwd(ok, account) ==
    WalkPrev(ok, account, OwnedKitties_read_head(ok, account).prev, WalkFuel)

\* the ids that have a node entry under the account
NodeIds(ok, account) == {k[2] : k \in {d \in DOMAIN ok : d[1] = account /\ d[2] # None}}

\* the ids an account's chain contains: those a walk meets and those with a node entry
ChainIds(ok, account) == Range(ChainFwd(ok, account)) \cup NodeIds(ok, account)

InChain(ok, account, id) == id \in ChainIds(ok, account)

(* ====================== claims ========================================= *)

\* C1: every id below KittiesCount has a Kitties record and a KittyOwner entry, occurs
\* exactly once in the chain of the account KittyOwner names and in no other account's
\* chain; no chain contains an id that has no Kitties record.
C1_RegistryMatchesChains ==
    /\ \A id \in KittyIndex :
          id < KittiesCount =>
            /\ StorageExists(Kitties, id)
            /\ StorageExists(KittyOwner, id)
            /\ Occurrences(ChainFwd(OwnedKitties, KittyOwner[id]), id) = 1
            /\ StorageExists(OwnedKitties, <<KittyOwner[id], id>>)
            /\ \A a \in AccountId \ {KittyOwner[id]} : ~InChain(OwnedKitties, a, id)
    /\ \A a \in AccountId :
          \A id \in ChainIds(OwnedKitties, a) : StorageExists(Kitties, id)

\* the three ids exist, both accounts own one, and the last call was a purchase
C1_Witness ==
    /\ last = Call("buy_kitty", "Ok")
    /\ KittiesCount = 3
    /\ \A a \in {1, 2} : ChainFwd(OwnedKitties, a) # <<>>

\* C2: every account's chain is a well-formed doubly linked list: both walks end, the
\* backward walk is the forward walk reversed, and each node's neighbours (the sentinel
\* standing in for a missing one) point back at it.
C2_ChainsWellFormed ==
    \A a \in AccountId :
        LET fwd == ChainFwd(OwnedKitties, a)
            bwd == ChainBwd(OwnedKitties, a)
        IN  /\ Stuck \notin Range(fwd)
            /\ Stuck \notin Range(bwd)
            /\ fwd = Reverse(bwd)
            /\ \A id \in Range(fwd) :
                  /\ StorageExists(OwnedKitties, <<a, id>>)
                  /\ LET node == OwnedKitties[<<a, id>>]
                     IN  /\ OwnedKitties_read(OwnedKitties, a, node.prev).next = id
                         /\ OwnedKitties_read(OwnedKitties, a, node.next).prev = id

\* an account holds a chain of three ids, the last of them just transferred to it
C2_Witness ==
    /\ last = Call("transfer", "Ok")
    /\ \E a \in AccountId : Len(ChainFwd(OwnedKitties, a)) = 3

\* C3: the ids issued by successful create and breed calls are 0, 1, 2, ... in that
\* order, none twice, and KittiesCount is their number; a successful call stores its
\* kitty under a fresh id and advances the counter by one; failed calls and transfer,
\* buy_kitty and set_price leave the counter alone.
C3_IdsIssuedInOrder ==
    LET count == IF version = 5 THEN KittiesCount ELSE L4_KittiesCount
        Issues(before, r) ==
            LET after == Committed(before, r)
                cnt == before.KittiesCount
            IN  IF r.res = "Ok"
                THEN /\ after.KittiesCount = cnt + 1
                     /\ ~StorageExists(before.Kitties, cnt)
                     /\ DOMAIN after.Kitties = (DOMAIN before.Kitties) \cup {cnt}
                ELSE /\ after.KittiesCount = cnt
                     /\ DOMAIN after.Kitties = DOMAIN before.Kitties
    IN  /\ issued = [i \in 1..count |-> i - 1]
        /\ version = 5 =>
              /\ \A sender \in AccountId, dna \in RandomValues :
                    Issues(store, create(store, sender, dna, ~overflow_checks))
              /\ \A sender \in AccountId, id1 \in KittyIndex, id2 \in KittyIndex,
                    selector \in RandomValues :
                    Issues(store, breed(store, sender, id1, id2, selector, ~overflow_checks))
              /\ \A sender \in AccountId, id \in KittyIndex :
                    /\ \A to \in AccountId :
                          Committed(store, transfer(store, sender, to, id)).KittiesCount
                              = KittiesCount
                    /\ \A amount \in Balance :
                          /\ Committed(store, buy_kitty(store, sender, id, amount)).KittiesCount
                                = KittiesCount
                          /\ Committed(store, set_price(store, sender, id, amount)).KittiesCount
                                = KittiesCount
        /\ version = 4 =>
              /\ \A sender \in AccountId, dna \in RandomValues :
                    Issues(store4, L4_create(store4, sender, dna, ~overflow_checks))
              /\ \A sender \in AccountId, id1 \in KittyIndex, id2 \in KittyIndex,
                    selector \in RandomValues :
                    Issues(store4, L4_breed(store4, sender, id1, id2, selector, ~overflow_checks))
              /\ \A sender \in AccountId, to \in AccountId, id \in KittyIndex :
                    Committed(store4, L4_transfer(store4, sender, to, id)).KittiesCount
                        = L4_KittiesCount

\* three ids have been issued, the last by a breed
C3_Witness ==
    /\ issued = <<0, 1, 2>>
    /\ last = Call("breed", "Ok")

\* C4: with the counter at max_value(), create and breed of two existing distinct
\* parents fail with the overflow error and change nothing; the counter never exceeds
\* max_value() and a successful call advances it by exactly one, without wrapping.
C4_SaturatedCounterRejects ==
    LET overflow == [res |-> "Kitties count overflow", st |-> store]
        Advances(r) == r.res = "Ok" => /\ KittiesCount + 1 <= MaxKittyIndex
                                       /\ r.st.KittiesCount = KittiesCount + 1
    IN  /\ KittiesCount \in 0..MaxKittyIndex
        /\ \A sender \in AccountId, dna \in RandomValues :
              /\ KittiesCount = MaxKittyIndex =>
                    create(store, sender, dna, ~overflow_checks) = overflow
              /\ Advances(create(store, sender, dna, ~overflow_checks))
        /\ \A sender \in AccountId, id1 \in KittyIndex, id2 \in KittyIndex,
              selector \in RandomValues :
              /\ ( /\ KittiesCount = MaxKittyIndex
                   /\ StorageExists(Kitties, id1)
                   /\ StorageExists(Kitties, id2)
                   /\ id1 # id2 )
                 => breed(store, sender, id1, id2, selector, ~overflow_checks) = overflow
              /\ Advances(breed(store, sender, id1, id2, selector, ~overflow_checks))

\* the counter is saturated and a breed has just been refused for it
C4_Witness ==
    /\ KittiesCount = MaxKittyIndex
    /\ last = Call("breed", "Kitties count overflow")

\* the preconditions of buy_kitty
BuyPre(sender, id, max_price) ==
    /\ StorageExists(Kitties, id)
    /\ StorageExists(KittyOwner, id)
    /\ KittyOwner[id] # sender
    /\ Kitties[id].price # 0
    /\ Kitties[id].price <= max_price

\* C5: a buy_kitty whose preconditions hold changes nothing when the balance transfer
\* fails; when it succeeds exactly the price has moved from the buyer to the previous
\* owner, the buyer owns the id, the id is in the buyer's chain and not in the previous
\* owner's, and the price is 0.
C5_BuyAtomic ==
    \A sender \in AccountId, id \in KittyIndex, max_price \in Balance :
        BuyPre(sender, id, max_price) =>
            LET owner == KittyOwner[id]
                price == Kitties[id].price
                paid == Currency_transfer(store, sender, owner, price)
                r == buy_kitty(store, sender, id, max_price)
            IN  IF paid.res # "Ok"
                THEN r.res # "Ok" /\ r.st = store
                ELSE /\ r.res = "Ok"
                     /\ r.st.FreeBalance =
                          [a \in AccountId |->
                             IF a = sender THEN FreeBalance[a] - price
                             ELSE IF a = owner THEN FreeBalance[a] + price
                             ELSE FreeBalance[a]]
                     /\ r.st.KittyOwner[id] = sender
                     /\ InChain(r.st.OwnedKitties, sender, id)
                     /\ ~InChain(r.st.OwnedKitties, owner, id)
                     /\ r.st.Kitties[id].price = 0

\* a purchase has just failed for lack of funds
C5_Witness == last = Call("buy_kitty", "balance too low to send value")

\* C6: buy_kitty is rejected, with nothing changed, when the id does not exist, the
\* sender owns it, it is not for sale or it costs more than max_price; it is rejected
\* for no other reason than these and a failed balance transfer.
C6_BuyRejections ==
    \A sender \in AccountId, id \in KittyIndex, max_price \in Balance :
        LET r == buy_kitty(store, sender, id, max_price)
            exists == StorageExists(Kitties, id)
            owned == StorageExists(KittyOwner, id)
            own_cat == exists /\ owned /\ KittyOwner[id] = sender
            not_for_sale == exists /\ Kitties[id].price = 0
            too_high == exists /\ Kitties[id].price > max_price
            unpaid == /\ BuyPre(sender, id, max_price)
                      /\ Currency_transfer(store, sender, KittyOwner[id],
                                            Kitties[id].price).res # "Ok"
        IN  /\ (~exists \/ own_cat \/ not_for_sale \/ too_high) =>
                  r.res # "Ok" /\ r.st = store
            /\ r.res # "Ok" => (~exists \/ own_cat \/ not_for_sale \/ too_high \/ unpaid)

\* a purchase has just been refused because the price exceeds max_price
C6_Witness ==
    last = Call("buy_kitty", "The cat you want to buy costs more than your max price")

\* C7: in either version, a transfer by an account that is not the owner of the id
\* (an id that does not exist included) fails and leaves every storage item unchanged.
C7_UnauthorizedTransferRejected ==
    /\ version = 5 =>
          \A sender \in AccountId, to \in AccountId, id \in KittyIndex :
              (~StorageExists(KittyOwner, id) \/ KittyOwner[id] # sender) =>
                  LET r == transfer(store, sender, to, id)
                  IN  r.res # "Ok" /\ r.st = store
    /\ version = 4 =>
          \A sender \in AccountId, to \in AccountId, id \in KittyIndex :
              (~StorageExists(L4_KittyOwner, id) \/ L4_KittyOwner[id] # sender) =>
                  LET r == L4_transfer(store4, sender, to, id)
                  IN  r.res # "Ok" /\ r.st = store4

\* a lesson-4 transfer of an existing kitty has just been refused to a non-owner
C7_Witness ==
    /\ version = 4
    /\ last = Call("transfer", "You do not own this kitty")
    /\ L4_KittiesCount > 0

\* lesson 4: the id is held in a slot of the account's array
L4_Owns(st, account, id) ==
    \E i \in 0..(StorageGetOrDefault(st.OwnedKittiesCount, account) - 1) :
        /\ StorageExists(st.OwnedKitties, <<account, i>>)
        /\ st.OwnedKitties[<<account, i>>] = id

\* C8: in either version, whenever transfer answers Ok the id is owned by `to`, is
\* recorded in the per-owner index of `to` and, unless to is the sender, no longer in
\* the sender's.
C8_TransferOkMovesKitty ==
    /\ version = 5 =>
          \A sender \in AccountId, to \in AccountId, id \in KittyIndex :
              LET r == transfer(store, sender, to, id)
              IN  r.res = "Ok" =>
                    /\ r.st.KittyOwner[id] = to
                    /\ InChain(r.st.OwnedKitties, to, id)
                    /\ to # sender => ~InChain(r.st.OwnedKitties, sender, id)
    /\ version = 4 =>
          \A sender \in AccountId, to \in AccountId, id \in KittyIndex :
              LET r == L4_transfer(store4, sender, to, id)
              IN  r.res = "Ok" =>
                    /\ r.st.KittyOwner[id] = to
                    /\ L4_Owns(r.st, to, id)
                    /\ to # sender => ~L4_Owns(r.st, sender, id)

\* C9: set_price succeeds exactly when the id exists and the sender owns it; on success
\* the price is the given one and the genome, the owner map, every chain, the counter
\* and every other record are unchanged; on failure nothing changes.
C9_SetPriceOwnerOnly ==
    \A sender \in AccountId, id \in KittyIndex, price \in Balance :
        LET r == set_price(store, sender, id, price)
            allowed == /\ StorageExists(Kitties, id)
                       /\ StorageExists(KittyOwner, id)
                       /\ KittyOwner[id] = sender
        IN  /\ r.res = "Ok" <=> allowed
            /\ r.res = "Ok" =>
                  /\ r.st.Kitties[id].price = price
                  /\ r.st.Kitties[id].dna = Kitties[id].dna
                  /\ r.st.Kitties = [Kitties EXCEPT ![id] = r.st.Kitties[id]]
                  /\ r.st = [store EXCEPT !.Kitties = r.st.Kitties]
            /\ r.res # "Ok" => r.st = store

\* a kitty is listed at a nonzero price by a set_price that has just succeeded
C9_Witness ==
    /\ last = Call("set_price", "Ok")
    /\ \E id \in DOMAIN Kitties : Kitties[id].price # 0

\* what C10 asks of one breed call: r is its result on the registry `kitties` with
\* counter `cnt`, `before` the storage it ran on
BreedContract(kitties, cnt, before, sender, id1, id2, r) ==
    LET e1 == StorageExists(kitties, id1)
        e2 == StorageExists(kitties, id2)
    IN  /\ (~e1 \/ ~e2) => r.res \in {"Invalid kitty_id_1", "Invalid kitty_id_2"}
        /\ (e1 /\ e2 /\ id1 = id2) => r.res = "Needs different parent"
        /\ r.res # "Ok" => r.st = before
        /\ (e1 /\ e2 /\ id1 # id2 /\ cnt # MaxKittyIndex) =>
              /\ r.res = "Ok"
              /\ ~StorageExists(kitties, cnt)
              /\ DOMAIN r.st.Kitties = (DOMAIN kitties) \cup {cnt}
              /\ r.st.KittiesCount = cnt + 1
              /\ StorageExists(r.st.KittyOwner, cnt)
              /\ r.st.KittyOwner[cnt] = sender

\* C10 (lesson 5): breed fails with an invalid-parent error when a parent does not
\* exist and with the same-parent error when both exist and are equal, changing and
\* issuing nothing; with two existing distinct parents and an unsaturated counter it
\* succeeds and issues exactly one new id, owned by the breeder.
C10_BreedPreconditions ==
    \A sender \in AccountId, id1 \in KittyIndex, id2 \in KittyIndex,
       selector \in RandomValues :
        /\ BreedContract(Kitties, KittiesCount, store, sender, id1, id2,
                         breed(store, sender, id1, id2, selector, ~overflow_checks))
        /\ LET r == breed(store, sender, id1, id2, selector, ~overflow_checks)
           IN  r.res = "Ok" => InChain(r.st.OwnedKitties, sender, KittiesCount)

\* C10 (either version): the same contract, asked of the version the runtime runs
C10_BreedPreconditionsAnyVersion ==
    /\ version = 5 => C10_BreedPreconditions
    /\ version = 4 =>
          \A sender \in AccountId, id1 \in KittyIndex, id2 \in KittyIndex,
             selector \in RandomValues :
              BreedContract(L4_Kitties, L4_KittiesCount, store4, sender, id1, id2,
                            L4_breed(store4, sender, id1, id2, selector, ~overflow_checks))

\* the genome a store holds for an id (lesson 4 stores the bare genome)
Genome(kitties, id) == IF version = 5 THEN kitties[id].dna ELSE kitties[id]

\* child is, byte by byte, combine_dna of the two parent genomes under the selector,
\* each bit taken from parent 1 where the selector bit is 1 and from parent 2 otherwise
IsBred(child, dna1, dna2, selector) ==
    /\ DOMAIN child = 1..DnaLen
    /\ \A i \in 1..DnaLen :
          /\ child[i] = combine_dna(dna1[i], dna2[i], selector[i])
          /\ \A b \in 0..7 :
                (child[i] \div (2 ^ b)) % 2 =
                    IF (selector[i] \div (2 ^ b)) % 2 = 1
                    THEN (dna1[i] \div (2 ^ b)) % 2
                    ELSE (dna2[i] \div (2 ^ b)) % 2

\* the result of a breed call in the running version
BreedResult(sender, id1, id2, selector) ==
    IF version = 5
    THEN breed(store, sender, id1, id2, selector, ~overflow_checks)
    ELSE L4_breed(store4, sender, id1, id2, selector, ~overflow_checks)

\* C11: whatever selector the randomness source supplies, the genome stored for the
\* kitty a successful breed(id1, id2) produces is byte by byte combine_dna of the
\* parents' genomes under that selector, and the parents' genomes are unchanged.
C11_BredGenomeIsCombined ==
    \A sender \in AccountId, id1 \in KittyIndex, id2 \in KittyIndex, selector \in GeneValues :
        LET before == IF version = 5 THEN store ELSE store4
            r == BreedResult(sender, id1, id2, selector)
            child == before.KittiesCount
        IN  r.res = "Ok" =>
              /\ StorageExists(r.st.Kitties, child)
              /\ child \notin {id1, id2}
              /\ IsBred(Genome(r.st.Kitties, child), Genome(before.Kitties, id1),
                        Genome(before.Kitties, id2), selector)
              /\ Genome(r.st.Kitties, id1) = Genome(before.Kitties, id1)
              /\ Genome(r.st.Kitties, id2) = Genome(before.Kitties, id2)

\* a breed has just produced a kitty whose genome mixes two different parent genomes:
\* it is the combination of two earlier kitties and equal to neither
C11_Witness ==
    /\ last = Call("breed", "Ok")
    /\ LET kitties == IF version = 5 THEN Kitties ELSE L4_Kitties
           child == (IF version = 5 THEN KittiesCount ELSE L4_KittiesCount) - 1
       IN  \E id1 \in DOMAIN kitties, id2 \in DOMAIN kitties, selector \in GeneValues :
             /\ id1 < child /\ id2 < child /\ id1 # id2
             /\ IsBred(Genome(kitties, child), Genome(kitties, id1),
                       Genome(kitties, id2), selector)
             /\ Genome(kitties, child) # Genome(kitties, id1)
             /\ Genome(kitties, child) # Genome(kitties, id2)

\* bit i (0 = least significant) of a byte
Bit(x, i) == (x \div (2 ^ i)) % 2

\* the per-bit multiplexer: out takes each bit from dna1 where the selector bit is 1
\* and from dna2 where it is 0
IsMux(out, dna1, dna2, selector) ==
    \A i \in 0..7 :
        Bit(out, i) = IF Bit(selector, i) = 1 THEN Bit(dna1, i) ELSE Bit(dna2, i)

\* C12: what combine_dna returns is the per-bit multiplexer of its operands (228 for
\* 240, 204 and selector 170), and the lesson-4 function returns what the lesson-5
\* function returns.
C12_CombineDnaIsMux ==
    /\ mux.out5 # None =>
          /\ mux.out5 \in Byte
          /\ IsMux(mux.out5, mux.dna1, mux.dna2, mux.selector)
          /\ (mux.dna1 = 240 /\ mux.dna2 = 204 /\ mux.selector = 170) => mux.out5 = 228
    /\ mux.out4 # None => IsMux(mux.out4, mux.dna1, mux.dna2, mux.selector)
    /\ (mux.out5 # None /\ mux.out4 # None) => mux.out5 = mux.out4

\* both versions have been applied to the operands of the module's own example
C12_Witness ==
    /\ mux.dna1 = 240 /\ mux.dna2 = 204 /\ mux.selector = 170
    /\ mux.out5 = 228 /\ mux.out4 = 228

\* every link entry of the account reads the same in both stores
SameLinks(ok1, ok2, account) ==
    \A key \in KittyIndex \cup {None} :
        OwnedKitties_read(ok1, account, key) = OwnedKitties_read(ok2, account, key)

\* the entries of every other account are the same entries in both stores
OthersUntouched(ok1, ok2, account) ==
    \A k \in (DOMAIN ok1) \cup (DOMAIN ok2) :
        k[1] # account => (k \in DOMAIN ok1 /\ k \in DOMAIN ok2 /\ ok1[k] = ok2[k])

\* C13: on a list that does not hold x, append(A, x) followed at once by remove(A, x)
\* gives back every link entry of A as it read before (sentinel and nodes, an absent
\* entry reading as the default), leaves no node entry for x, and leaves the sentinel
\* of a list that was empty reading {prev: None, next: None}.
C13_AppendRemoveRoundTrip ==
    \A account \in AccountId, x \in KittyIndex :
        (x \notin Range(listed[account]) /\ ~InChain(OwnedKitties, account, x)) =>
            LET appended == OwnedKitties_append(OwnedKitties, account, x)
                back == OwnedKitties_remove(appended, account, x)
            IN  /\ StorageExists(appended, <<account, x>>)
                /\ SameLinks(back, OwnedKitties, account)
                /\ ~StorageExists(back, <<account, x>>)
                /\ NodeIds(back, account) = NodeIds(OwnedKitties, account)
                /\ OthersUntouched(back, OwnedKitties, account)
                /\ listed[account] = <<>> =>
                      OwnedKitties_read_head(back, account) = DefaultItem

\* an append to an empty list was undone by a remove: the account's sentinel entry is
\* stored and reads {None, None}, no node is left, the other account was never touched
C13_Witness ==
    /\ last = Call("remove", "Ok")
    /\ \E account \in AccountId :
          /\ listed[account] = <<>>
          /\ DOMAIN OwnedKitties = {<<account, None>>}
          /\ OwnedKitties[<<account, None>>] = DefaultItem

\* the element before and after position i of a sequence, None at the ends
SeqPrev(seq, i) == IF i > 1 THEN seq[i - 1] ELSE None

SeqNext(seq, i) == IF i < Len(seq) THEN seq[i + 1] ELSE None

\* the account's entries are those of the list seq: the sentinel points at the first
\* element (next) and the last (prev), each node at its neighbours, and no other node
\* is stored
LinksAre(ok, account, seq) ==
    /\ OwnedKitties_read_head(ok, account) =
          [prev |-> SeqPrev(seq, Len(seq) + 1), next |-> SeqNext(seq, 0)]
    /\ \A i \in 1..Len(seq) :
          /\ StorageExists(ok, <<account, seq[i]>>)
          /\ ok[<<account, seq[i]>>] = [prev |-> SeqPrev(seq, i), next |-> SeqNext(seq, i)]
    /\ NodeIds(ok, account) = Range(seq)

\* C15: append keeps insertion order.  The list of every account reads as the ids
\* appended to it, oldest first: sentinel {prev: xn, next: x1}, node xi
\* {prev: x(i-1), next: x(i+1)} with None at both ends; and an append of a new id
\* puts it last and changes only the sentinel, the previous tail and the new node.
C15_AppendKeepsOrder ==
    \A account \in AccountId :
        LET seq == listed[account]
            tail == SeqPrev(seq, Len(seq) + 1)
        IN  /\ LinksAre(OwnedKitties, account, seq)
            /\ seq # <<>> => /\ StorageExists(OwnedKitties, <<account, None>>)
                             /\ ChainFwd(OwnedKitties, account) = seq
            /\ \A x \in KittyIndex \ Range(seq) :
                  LET appended == OwnedKitties_append(OwnedKitties, account, x)
                  IN  /\ LinksAre(appended, account, Append(seq, x))
                      /\ StorageExists(appended, <<account, None>>)
                      /\ \A k \in (DOMAIN OwnedKitties) \cup (DOMAIN appended) :
                            k \notin {<<account, None>>, <<account, tail>>, <<account, x>>}
                              => /\ k \in DOMAIN OwnedKitties /\ k \in DOMAIN appended
                                 /\ appended[k] = OwnedKitties[k]

\* three ids were appended to one account out of numeric order, the last just now
C15_Witness ==
    /\ last = Call("append", "Ok")
    /\ \E account \in AccountId :
          /\ listed[account] = <<2, 0, 1>>
          /\ OwnedKitties[<<account, None>>] = [prev |-> 1, next |-> 2]
          /\ OwnedKitties[<<account, 0>>] = [prev |-> 2, next |-> 1]

\* C16: remove of an id the list holds, wherever it stands (first, middle, last or
\* alone), deletes its node entry and leaves the list of the remaining ids in their
\* order, the sentinel standing in for a missing neighbour; after the removal of the
\* only id the sentinel is stored as {prev: None, next: None}.
C16_RemoveSplices ==
    \A account \in AccountId :
        LET seq == listed[account]
        IN  \A i \in 1..Len(seq) :
              LET x == seq[i]
                  rest == Without(seq, x)
                  removed == OwnedKitties_remove(OwnedKitties, account, x)
              IN  /\ ~StorageExists(removed, <<account, x>>)
                  /\ Len(rest) = Len(seq) - 1
                  /\ LinksAre(removed, account, rest)
                  /\ ChainFwd(removed, account) = rest
                  /\ ChainBwd(removed, account) = Reverse(rest)
                  /\ rest = <<>> => /\ StorageExists(removed, <<account, None>>)
                                    /\ removed[<<account, None>>] = DefaultItem
                  /\ OthersUntouched(removed, OwnedKitties, account)

\* a remove has just run; one account holds three ids (a first, a middle and a last
\* one to remove) and the other has had its only id removed
C16_Witness ==
    /\ last = Call("remove", "Ok")
    /\ \E account \in AccountId, other \in AccountId :
          /\ Len(listed[account]) = 3
          /\ listed[other] = <<>>
          /\ StorageExists(OwnedKitties, <<other, None>>)

\* C20: remove of an id the account has no node entry for (the list does not hold it,
\* or is empty) is a no-op: the storage map is the same map afterwards, no entry of
\* any account written or deleted and no sentinel entry created.
C20_RemoveAbsentIsNoOp ==
    \A account \in AccountId, x \in KittyIndex :
        ~StorageExists(OwnedKitties, <<account, x>>) =>
            LET removed == OwnedKitties_remove(OwnedKitties, account, x)
            IN  /\ DOMAIN removed = DOMAIN OwnedKitties
                /\ \A k \in DOMAIN OwnedKitties : removed[k] = OwnedKitties[k]
                /\ ~StorageExists(OwnedKitties, <<account, None>>) =>
                      ~StorageExists(removed, <<account, None>>)

\* a remove ran on an account that never had a list while the other account holds
\* ids: nothing was created for the first one
C20_Witness ==
    /\ last = Call("remove", "Ok")
    /\ \E account \in AccountId, other \in AccountId :
          /\ listed[account] = <<>>
          /\ \A k \in DOMAIN OwnedKitties : k[1] # account
          /\ Len(listed[other]) = 2

\* what one step may do to the kitty records: every record stays, with its genome and
\* an owner; a record that appears is the one create or breed has just made under the
\* next id of the counter, with price 0 and an owner
LifecycleStep ==
    /\ \A id \in DOMAIN Kitties :
          /\ StorageExists(Kitties', id)
          /\ Kitties'[id].dna = Kitties[id].dna
          /\ StorageExists(KittyOwner, id) /\ StorageExists(KittyOwner', id)
    /\ \A id \in (DOMAIN Kitties') \ (DOMAIN Kitties) :
          /\ id = KittiesCount
          /\ last' \in {Call("create", "Ok"), Call("breed", "Ok")}
          /\ Kitties'[id].price = 0
          /\ StorageExists(KittyOwner', id)
    /\ DOMAIN KittyOwner \subseteq DOMAIN KittyOwner'

\* C14: a kitty, once created by create or breed, exists in every later state with its
\* owner entry; it is created with price 0; and its genome never changes, whatever
\* set_price, buy_kitty, transfer, create and breed calls follow.
C14_Lifecycle == [][LifecycleStep]_vars

\* three kitties with different genomes exist, one has been priced by its owner and
\* one has just been bought
C14_Witness ==
    /\ last = Call("buy_kitty", "Ok")
    /\ KittiesCount = 3
    /\ Kitties[0].dna # Kitties[1].dna
    /\ Kitties[2].dna \notin {Kitties[0].dna, Kitties[1].dna}
    /\ \E id \in DOMAIN Kitties : Kitties[id].price > 0

\* C17: once buy_kitty's checks have passed and the balance transfer has succeeded, the
\* inner do_transfer(owner, buyer, id) returns Ok: the expect() never panics, and no
\* purchase ends with money moved and the kitty not re-parented to the buyer.
C17_BuyTransferCannotFail ==
    \A sender \in AccountId, kitty_id \in KittyIndex, max_price \in Balance :
        LET r == buy_kitty(store, sender, kitty_id, max_price)
        IN  /\ r.res # "panic"
            /\ BuyPre(sender, kitty_id, max_price) =>
                  LET owner == KittyOwner[kitty_id]
                      paid == Currency_transfer(store, sender, owner, Kitties[kitty_id].price)
                  IN  paid.res = "Ok" =>
                        /\ do_transfer(paid.st, owner, sender, kitty_id).res = "Ok"
                        /\ r.res = "Ok"
            /\ r.st.FreeBalance # FreeBalance =>
                  /\ r.res = "Ok"
                  /\ r.st.KittyOwner[kitty_id] = sender
                  /\ Occurrences(ChainFwd(r.st.OwnedKitties, sender), kitty_id) = 1
                  /\ \A a \in AccountId \ {sender} : ~InChain(r.st.OwnedKitties, a, kitty_id)

\* a purchase has gone through: the buyer has paid its whole balance to the seller and
\* heads a list that holds a kitty no longer for sale
C17_Witness ==
    /\ last = Call("buy_kitty", "Ok")
    /\ \E buyer \in AccountId, seller \in AccountId :
          /\ FreeBalance[buyer] = 0
          /\ FreeBalance[seller] = 2 * InitBalance
          /\ \E id \in DOMAIN KittyOwner :
                /\ KittyOwner[id] = buyer /\ Kitties[id].price = 0
                /\ InChain(OwnedKitties, buyer, id)

\* the ids lesson 4 records the account as owner of
L4_OwnedIds(account) == {id \in DOMAIN L4_KittyOwner : L4_KittyOwner[id] = account}

\* C18: lesson 4 keeps every account's array dense and consistent: the account's count
\* is the number of ids it owns, slots 0 .. count-1 are all stored and hold exactly
\* those ids, none twice, and the reverse index of each owned id names the slot of the
\* account's array that holds it.
C18_DenseArrays ==
    \A account \in AccountId :
        LET count == StorageGetOrDefault(L4_OwnedKittiesCount, account)
            owned == L4_OwnedIds(account)
            slots == 0..(count - 1)
        IN  /\ count = Cardinality(owned)
            /\ \A slot \in slots : StorageExists(L4_OwnedKitties, <<account, slot>>)
            /\ {StorageGetOrDefault(L4_OwnedKitties, <<account, slot>>) : slot \in slots} = owned
            /\ \A id \in owned :
                  /\ StorageGetOrDefault(L4_OwnedKittiesIndex, id) \in slots
                  /\ StorageGetOrDefault(L4_OwnedKitties,
                        <<account, StorageGetOrDefault(L4_OwnedKittiesIndex, id)>>) = id

\* C19: the lesson-4 transfer call surfaces every failure of do_transfer: when the
\* caller owns the id and do_transfer(sender, to, id) returns an error, transfer
\* returns that error and changes no state.
C19_TransferSurfacesErrors ==
    \A sender \in AccountId, to \in AccountId, kitty_id \in KittyIndex :
        (StorageExists(L4_KittyOwner, kitty_id) /\ L4_KittyOwner[kitty_id] = sender) =>
            LET inner == L4_do_transfer(store4, sender, to, kitty_id)
                r == L4_transfer(store4, sender, to, kitty_id)
            IN  inner.res # "Ok" => (r.res = inner.res /\ r.st = store4)

\* what moving id from account S to account T makes of the lists ok, giving ok2: id is
\* the tail of T's list, behind the ids T held in their order; S's list is what it was
\* without id; both are well-formed; no entry of any other account differs
Reparented(ok, ok2, S, T, id) ==
    /\ id \in Range(ChainFwd(ok, S))
    /\ OwnedKitties_read_head(ok2, T).prev = id
    /\ ChainFwd(ok2, T) = Append(Without(ChainFwd(ok, T), id), id)
    /\ S # T => ChainFwd(ok2, S) = Without(ChainFwd(ok, S), id)
    /\ S = T => Range(ChainFwd(ok2, T)) = Range(ChainFwd(ok, T))
    /\ \A a \in {S, T} :
          /\ ChainBwd(ok2, a) = Reverse(ChainFwd(ok2, a))
          /\ LinksAre(ok2, a, ChainFwd(ok2, a))
    /\ \A k \in (DOMAIN ok) \cup (DOMAIN ok2) :
          k[1] \notin {S, T} => (k \in DOMAIN ok /\ k \in DOMAIN ok2 /\ ok[k] = ok2[k])

\* C21: a successful transfer or buy_kitty that moves id from S to T makes id the tail
\* of T's chain (T's sentinel prev is id), keeps the other ids of S's and of T's chain
\* in their order and leaves every other account's chain as it was; a transfer to
\* oneself keeps the chain's ids, moves id to the tail and keeps the chain well-formed.
C21_ReparentedAtTail ==
    /\ \A sender \in AccountId, to \in Recipients, kitty_id \in KittyIndex :
          LET r == transfer(store, sender, to, kitty_id)
          IN  r.res = "Ok" =>
                Reparented(OwnedKitties, r.st.OwnedKitties, sender, to, kitty_id)
    /\ \A sender \in AccountId, kitty_id \in KittyIndex, max_price \in Balance :
          LET r == buy_kitty(store, sender, kitty_id, max_price)
          IN  r.res = "Ok" =>
                Reparented(OwnedKitties, r.st.OwnedKitties, KittyOwner[kitty_id], sender,
                           kitty_id)

\* one account created the three ids and has just transferred the oldest to itself:
\* it went from the head of the chain to its tail
C21_Witness ==
    /\ last = Call("transfer", "Ok")
    /\ \E a \in AccountId :
          /\ ChainFwd(OwnedKitties, a) = <<1, 2, 0>>
          /\ OwnedKitties_read_head(OwnedKitties, a) = [prev |-> 0, next |-> 1]
          /\ \A id \in 0..2 : KittyOwner[id] = a

\* a successful transfer stores no kitty record: genome and price of the id and of
\* every other kitty are what they were, under the new owner
TransferKeepsRecords ==
    \A sender \in AccountId, to \in Recipients, kitty_id \in KittyIndex :
        LET r == transfer(store, sender, to, kitty_id)
        IN  r.res = "Ok" =>
              /\ r.st.Kitties = Kitties
              /\ r.st.Kitties[kitty_id].dna = Kitties[kitty_id].dna
              /\ r.st.Kitties[kitty_id].price = Kitties[kitty_id].price
              /\ r.st.KittyOwner[kitty_id] = to

\* a set_price call changes a price only when its sender is the current owner
PricedByOwnerOnly ==
    \A sender \in AccountId, kitty_id \in KittyIndex, price \in Balance :
        LET r == set_price(store, sender, kitty_id, price)
        IN  r.st.Kitties # Kitties =>
              /\ r.res = "Ok"
              /\ KittyOwner[kitty_id] = sender
              /\ r.st.Kitties[kitty_id].price = price
              /\ \A id \in (DOMAIN Kitties) \ {kitty_id} : r.st.Kitties[id] = Kitties[id]

\* how one step may change the price of an existing kitty: from 0 only by a successful
\* set_price, to 0 only by a successful set_price or buy_kitty, and by nothing else
PriceStep ==
    \A id \in DOMAIN Kitties :
        LET before == Kitties[id].price
            after == Kitties'[id].price
        IN  /\ (before = 0 /\ after # 0) => last' = Call("set_price", "Ok")
            /\ (before # 0 /\ after = 0) =>
                  last' \in {Call("set_price", "Ok"), Call("buy_kitty", "Ok")}
            /\ before # after => last' \in {Call("set_price", "Ok"), Call("buy_kitty", "Ok")}
            /\ (before # after /\ last' = Call("buy_kitty", "Ok")) =>
                  (after = 0 /\ KittyOwner'[id] # KittyOwner[id])
            /\ (before # after /\ last' = Call("set_price", "Ok")) =>
                  KittyOwner'[id] = KittyOwner[id]

\* C22: a successful transfer changes neither the genome nor the price of the id, so a
\* kitty listed at a nonzero price stays listed at that price under its new owner; a
\* price becomes nonzero only by a set_price call of the current owner and becomes 0
\* only by set_price(.., 0) or a successful buy_kitty.
C22_TransferKeepsRecord ==
    /\ [](TransferKeepsRecords /\ PricedByOwnerOnly)
    /\ [][PriceStep]_vars

\* the only kitty there is was put on sale and has just been transferred: it is still
\* on sale
C22_Witness ==
    /\ last = Call("transfer", "Ok")
    /\ KittiesCount = 1
    /\ Kitties[0].price # 0

====
